---------------------------- MODULE Spec2Model ----------------------------
(***************************************************************************)
(* A model of the Isaac Sim extension "Import Z1"                          *)
(* (exts/isaacsim.import_z1/isaacsim/import_z1/import_z1.py).              *)
(*                                                                         *)
(* The extension instance (its Python attributes) is the record `self`.    *)
(* The host is modelled by `stage` (the USD scene graph of the current     *)
(* stage) and `sim` (timeline, physics readiness, object allocation, the   *)
(* asynchronous Load pipeline).  `tick` is what the last physics-step      *)
(* callback did (its calls of forward() and apply_action()) and `ui` is    *)
(* what the last button handler did.                                       *)
(*                                                                         *)
(* Every handler of the class is an operator from the state before it to   *)
(* the state after it; the actions apply the handlers.  Host calls whose   *)
(* outcome the extension cannot know (whether a lookup of a missing prim   *)
(* raises, whether initialize() succeeds, what the policy returns) are     *)
(* inputs of the handlers, enumerated by the actions.                      *)
(*                                                                         *)
(* Numbers are exact rationals [n, d] with d > 0; python's None is the     *)
(* record with d = 0.  pi is the rational 355/113.                         *)
(***************************************************************************)
EXTENDS Integers, Sequences, FiniteSets, TLC

VARIABLES self, stage, sim, tick, ui

vars == <<self, stage, sim, tick, ui>>

---------------------------------------------------------------------------
(* Bounds of the model *)

\* Load clicks (stage generations) explored.
MaxLoads == 2
\* Objects (articulation wrappers, policies, controllers, subscriptions) the
\* host hands out.
MaxObjects == 7

---------------------------------------------------------------------------
(* Numbers *)

Abs(x) == IF x < 0 THEN -x ELSE x

RECURSIVE GCD(_, _)
GCD(a, b) == IF b = 0 THEN a ELSE GCD(b, a % b)

\* The rational n/d in lowest terms.
Rat(n, d) ==
    LET g == GCD(Abs(n), d)
    IN  IF n = 0 THEN [n |-> 0, d |-> 1] ELSE [n |-> n \div g, d |-> d \div g]

Int2Num(k) == [n |-> k, d |-> 1]

\* python's None where a number is expected.
NoneNum == [n |-> 0, d |-> 0]

IsNum(x) == x.d > 0

\* a * b, cancelling before multiplying.
RatMul(a, b) ==
    LET g1 == GCD(Abs(a.n), b.d)
        g2 == GCD(Abs(b.n), a.d)
    IN  IF a.n = 0 \/ b.n = 0 THEN Int2Num(0)
        ELSE Rat((a.n \div g1) * (b.n \div g2), (a.d \div g2) * (b.d \div g1))

\* a < b, cancelling before multiplying.
RatLess(a, b) ==
    LET g == GCD(a.d, b.d)
    IN  a.n * (b.d \div g) < b.n * (a.d \div g)

PiNum == [n |-> 355, d |-> 113]

\* math.radians(x) = x * pi / 180
math_radians(x) == RatMul(x, Rat(PiNum.n, PiNum.d * 180))

\* math.degrees(x) = x * 180 / pi
math_degrees(x) == RatMul(x, Rat(180 * PiNum.d, PiNum.n))

RECURSIVE Pow2(_)
Pow2(k) == IF k = 0 THEN 1 ELSE 2 * Pow2(k - 1)

\* The least binary shift k with a * 2^k / d >= 2^23: the exponent that gives
\* a single-precision number its 24 significant bits.
RECURSIVE F32Shift(_, _, _)
F32Shift(a, d, k) ==
    IF a * Pow2(k) >= Pow2(23) * d THEN k ELSE F32Shift(a, d, k + 1)

\* The single-precision (float32) number nearest to x, for |x| < 2^24: what
\* Gf.Vec3f / Gf.Quatf store of a python float.
F32(x) ==
    IF x.n = 0 THEN Int2Num(0)
    ELSE LET a == Abs(x.n)
             k == F32Shift(a, x.d, 0)
             m == (2 * a * Pow2(k) + x.d) \div (2 * x.d)
         IN  Rat((IF x.n < 0 THEN -1 ELSE 1) * m, Pow2(k))

\* Gf.Vec3f(x, y, z), Gf.Vec3d(x, y, z), Gf.Quatf(w, x, y, z)
Gf_Vec3f(x, y, z) == <<F32(x), F32(y), F32(z)>>
Gf_Vec3d(x, y, z) == <<x, y, z>>
Gf_Quatf(w, x, y, z) == <<F32(w), F32(x), F32(y), F32(z)>>


---------------------------------------------------------------------------
(* Strings: DOF names are sequences of characters, so that str.lower() and *)
(* the substring test `in` are computed.                                   *)

UpperChars == <<"A","B","C","D","E","F","G","H","I","J","K","L","M",
                "N","O","P","Q","R","S","T","U","V","W","X","Y","Z">>
LowerChars == <<"a","b","c","d","e","f","g","h","i","j","k","l","m",
                "n","o","p","q","r","s","t","u","v","w","x","y","z">>

LowerChar(c) ==
    IF \E i \in 1..26 : UpperChars[i] = c
    THEN LowerChars[CHOOSE i \in 1..26 : UpperChars[i] = c]
    ELSE c

\* name.lower()
str_lower(s) == [i \in 1..Len(s) |-> LowerChar(s[i])]

\* sub in s
str_in(sub, s) ==
    \E i \in 1..(Len(s) - Len(sub) + 1) : SubSeq(s, i, i + Len(sub) - 1) = sub

S_gripper == <<"g","r","i","p","p","e","r">>
S_jointgripper == <<"j","o","i","n","t">> \o S_gripper
S_joint(c) == <<"j","o","i","n","t",c>>
S_jointGripper == <<"j","o","i","n","t","G","r","i","p","p","e","r">>

\* The DOF names an imported articulation may report: the Z1 with its
\* gripper ("z1"), an arm without a gripper ("arm_only"), an arm whose
\* gripper DOFs come second and third under other spellings
\* ("two_grippers"); "none" is a stage without the robot.
DofNamesZ1 ==
    <<S_joint("1"), S_joint("2"), S_joint("3"), S_joint("4"), S_joint("5"),
      S_joint("6"), S_jointGripper>>
DofNamesArmOnly ==
    <<S_joint("1"), S_joint("2"), S_joint("3"), S_joint("4"), S_joint("5"),
      S_joint("6")>>
DofNamesTwoGrippers ==
    <<S_joint("1"), <<"G","R","I","P","P","E","R","_","L">>,
      <<"g","r","i","p","p","e","r","_","r">>, S_joint("2")>>
DofLayouts == {"z1", "arm_only", "two_grippers", "none"}

\* articulation.dof_names of the robot on a stage with this layout.
dof_names(layout) ==
    CASE layout = "z1" -> DofNamesZ1
      [] layout = "arm_only" -> DofNamesArmOnly
      [] layout = "two_grippers" -> DofNamesTwoGrippers
      [] OTHER -> <<>>

---------------------------------------------------------------------------
(* The scene graph *)

\* The seven joints _on_config_robot looks up, in its order: joint1..joint6
\* and jointGripper.
NumJoints == 7
GripperJoint == 7
Joints == 1..NumJoints

\* A robot import that left only the first joints in place.
PartialJoints == 2

\* Where the importer put the joint prims: <robot>/joints/<name> ("joints"),
\* <robot>/<name> ("flat"), or somewhere else ("other").
Schemes == {"joints", "flat", "other"}

\* A joint drive's attributes (UsdPhysics.DriveAPI "angular").
ImportedDrive ==
    [target |-> Int2Num(0), stiffness |-> Int2Num(10000000),
     damping |-> Int2Num(100000)]
NoDrive == [target |-> NoneNum, stiffness |-> NoneNum, damping |-> NoneNum]

\* Xform ops of the target prim.
OpTranslate(v) == [type |-> "translate", val |-> v]
OpOrient(q) == [type |-> "orient", val |-> q]
OpRotateXYZ(e) == [type |-> "rotateXYZ", val |-> e]
OpScale(v) == [type |-> "scale", val |-> v]

NoPrim == [valid |-> FALSE, ops |-> <<>>]

\* A new, empty stage (omni.usd new_stage_async).
EmptyStage(g) ==
    [gen |-> g, robot |-> FALSE, scheme |-> "other", njoints |-> 0,
     dof_layout |-> "none",
     solver_pos |-> 0, solver_vel |-> 0,
     drives |-> [j \in Joints |-> NoDrive],
     base_pos |-> <<>>, base_quat |-> <<>>,
     camera_link |-> FALSE, optical_frames |-> FALSE,
     cameras |-> {},
     physics_scene |-> FALSE, light |-> FALSE,
     target |-> NoPrim, target_defined |-> FALSE]

\* stage.GetPrimAtPath(<robot>/joints/<name>) or (<robot>/<name>) is valid.
JointPrimValid(st, scheme, j) ==
    st.robot /\ st.scheme = scheme /\ j <= st.njoints

\* A joint-drive handle held by the extension: the attribute is absent
\* ("unset"), a DriveAPI on a prim of stage generation gen ("drive"), or a
\* DriveAPI got on an invalid prim ("invalid").
UnsetHandle == [kind |-> "unset", gen |-> 0, joint |-> 0]
DriveHandle(st, j) == [kind |-> "drive", gen |-> st.gen, joint |-> j]
InvalidHandle(st, j) == [kind |-> "invalid", gen |-> st.gen, joint |-> j]

\* hasattr(self, 'joint_x') and self.joint_x is not None
HandlePresent(h) == h.kind # "unset"

\* The handle's prim still exists: it was got on the current stage.
HandleLive(st, h) == h.kind = "drive" /\ h.gen = st.gen

---------------------------------------------------------------------------
(* The extension instance and the host *)

\* self._z1_articulation / self._rmp_flow: None is the object with id 0.
NoArticulation == [id |-> 0, handles_initialized |-> FALSE]
NoRmpFlow == [id |-> 0, base_pos |-> <<>>, base_quat |-> <<>>]

\* on_startup: the attributes the instance has after startup.  The joint
\* handles and _gripper_open are not attributes yet.
on_startup ==
    [z1_articulation |-> NoArticulation,
     rmp_flow |-> NoRmpFlow,
     rmp_controller |-> 0,
     rmp_physx_subscription |-> 0,
     gripper_target_position |-> Int2Num(0),
     has_gripper_open |-> FALSE,
     gripper_open |-> FALSE,
     debug_gripper_lock |-> FALSE,
     rgb_camera_prim_path |-> "None",
     depth_camera_prim_path |-> "None",
     camera_pose_print_task |-> FALSE,
     joints |-> [j \in Joints |-> UnsetHandle]]

\* What the last physics-step callback did.
NoTick ==
    [outcome |-> "idle", raised |-> FALSE, initialize_calls |-> 0,
     forward_calls |-> 0, apply_calls |-> 0,
     target_pos |-> <<>>, target_ori |-> <<>>,
     raw |-> <<>>, applied |-> <<>>, has_positions |-> FALSE,
     gripper_joint_index |-> 0, patch_raised |-> "no",
     handles_before |-> FALSE, initialize_raised |-> FALSE,
     gripper_target |-> NoneNum]

\* What the last button handler did: op, whether it raised, whether it
\* reported an error and returned, how many times in a row the same
\* handler has now completed, and whether it constructed the bridge.
NoUi ==
    [op |-> "none", raised |-> FALSE, aborted |-> FALSE, streak |-> 0,
     constructed |-> FALSE]

\* At most this many successive completions of one handler are counted.
MaxStreak == 2

Streak(op) ==
    IF ui.op = op /\ ~ui.raised /\ ~ui.aborted
    THEN (IF ui.streak < MaxStreak THEN ui.streak + 1 ELSE MaxStreak)
    ELSE 1

UiOf(op, r) ==
    [op |-> op, raised |-> r.raised, aborted |-> r.aborted,
     streak |-> IF r.raised \/ r.aborted THEN 0 ELSE Streak(op),
     constructed |-> FALSE]

---------------------------------------------------------------------------
(* common.set_drive_parameters *)

\* set_drive_parameters(drive, "position", target_value, stiffness, damping):
\* sets the drive's position target, and its stiffness and damping when
\* given (None leaves them).  On a drive whose prim is not valid the
\* attribute calls raise.
set_drive_parameters(st, h, target_value, stiffness, damping) ==
    IF ~HandleLive(st, h)
    THEN [raised |-> TRUE, stage |-> st]
    ELSE [raised |-> FALSE,
          stage |-> [st EXCEPT !.drives[h.joint] =
              [target |-> target_value,
               stiffness |-> IF IsNum(stiffness) THEN stiffness ELSE @.stiffness,
               damping |-> IF IsNum(damping) THEN damping ELSE @.damping]]]

---------------------------------------------------------------------------
(* Drive Configurator: _on_config_robot *)

\* The first joint, in lookup order, whose prim is not valid under the
\* naming scheme; NumJoints + 1 when all seven are.
FirstMissing(st, scheme) ==
    IF \A j \in Joints : JointPrimValid(st, scheme, j)
    THEN NumJoints + 1
    ELSE CHOOSE j \in Joints :
            /\ ~JointPrimValid(st, scheme, j)
            /\ \A i \in 1..(j - 1) : JointPrimValid(st, scheme, i)

\* The seven assignments self.joint_x = UsdPhysics.DriveAPI.Get(
\* stage.GetPrimAtPath(...), "angular") of one try block, in order.  On a
\* host whose Get raises for an invalid prim the block stops at the first
\* missing joint, the earlier attributes already assigned; on a host whose
\* Get returns an invalid DriveAPI all seven are assigned.
GetJointDrives(joints, st, scheme, get_raises) ==
    LET k == FirstMissing(st, scheme)
    IN  IF get_raises /\ k <= NumJoints
        THEN [raised |-> TRUE,
              joints |-> [j \in Joints |->
                            IF j < k THEN DriveHandle(st, j) ELSE joints[j]]]
        ELSE [raised |-> FALSE,
              joints |-> [j \in Joints |->
                            IF JointPrimValid(st, scheme, j)
                            THEN DriveHandle(st, j) ELSE InvalidHandle(st, j)]]

\* The solver iteration count _on_config_robot writes on the articulation.
SolverIterations == 64

\* The gains _on_config_robot gives joint j: the six arm joints
\* math.radians(1e8) and math.radians(5e7), the gripper math.radians(1e7)
\* and math.radians(5e6).
MutDriveStiffness(j) ==
    IF j >= GripperJoint - 1
    THEN math_radians(Int2Num(10000000)) ELSE math_radians(Int2Num(100000000))

DriveStiffness(j) ==
    IF j = GripperJoint
    THEN math_radians(Int2Num(10000000)) ELSE math_radians(Int2Num(100000000))

DriveDamping(j) ==
    IF j = GripperJoint
    THEN math_radians(Int2Num(5000000)) ELSE math_radians(Int2Num(50000000))

\* The gains as the literals of lines 622-632, joint by joint.
DriveGains ==
    [j \in Joints |->
        [stiffness |-> DriveStiffness(j), damping |-> DriveDamping(j)]]

\* The seven set_drive_parameters calls, joint_1 first and joint_gripper
\* last, each with target 0; the first that raises ends the handler.
RECURSIVE ConfigureDrives(_, _, _)
ConfigureDrives(st, joints, j) ==
    IF j > NumJoints
    THEN [raised |-> FALSE, stage |-> st]
    ELSE LET r == set_drive_parameters(st, joints[j], Int2Num(0),
                                       DriveGains[j].stiffness,
                                       DriveGains[j].damping)
         IN  IF r.raised
             THEN [raised |-> TRUE, stage |-> st]
             ELSE ConfigureDrives(r.stage, joints, j + 1)

\* _on_config_robot.  get_raises: whether the host's DriveAPI.Get raises on
\* an invalid prim.
_on_config_robot(s, st, get_raises) ==
    IF ~st.robot
    THEN \* the articulation API of a prim that does not exist: the
         \* Create...Attr call raises
         [self |-> s, stage |-> st, raised |-> TRUE, aborted |-> FALSE]
    ELSE
    LET st1 == [st EXCEPT !.solver_pos = SolverIterations,
                          !.solver_vel = SolverIterations]
        primary == GetJointDrives(s.joints, st1, "joints", get_raises)
        alternate == GetJointDrives(primary.joints, st1, "flat", get_raises)
        found == IF primary.raised THEN alternate ELSE primary
        s1 == [s EXCEPT !.joints = found.joints]
        set == ConfigureDrives(st1, found.joints, 1)
    IN  IF found.raised
        THEN [self |-> s1, stage |-> st1, raised |-> FALSE, aborted |-> TRUE]
        ELSE IF set.raised
        THEN [self |-> s1, stage |-> set.stage, raised |-> TRUE,
              aborted |-> FALSE]
        ELSE [self |-> [s1 EXCEPT !.has_gripper_open = TRUE,
                                  !.gripper_open = FALSE,
                                  !.gripper_target_position = Int2Num(0)],
              stage |-> set.stage, raised |-> FALSE, aborted |-> FALSE]

---------------------------------------------------------------------------
(* Move to pose: _on_config_drives *)

\* The targets of joint_1..joint_6: math.degrees of 0, 1.57, -1.57, 0.52,
\* 0.52, 1.57.
MoveTarget(j) ==
    math_degrees(CASE j = 1 -> Int2Num(0)
                   [] j = 2 -> Rat(157, 100)
                   [] j = 3 -> Rat(-157, 100)
                   [] j = 4 -> Rat(52, 100)
                   [] j = 5 -> Rat(52, 100)
                   [] OTHER -> Rat(157, 100))

\* The six targets as the literals of lines 656-661.
MoveTargets == [j \in 1..(NumJoints - 1) |-> MoveTarget(j)]

RECURSIVE MoveDrives(_, _, _)
MoveDrives(st, joints, j) ==
    IF j > NumJoints - 1
    THEN [raised |-> FALSE, stage |-> st]
    ELSE LET r == set_drive_parameters(st, joints[j], MoveTargets[j],
                                       NoneNum, NoneNum)
         IN  IF r.raised
             THEN [raised |-> TRUE, stage |-> r.stage]
             ELSE MoveDrives(r.stage, joints, j + 1)

_on_config_drives(s, st, get_raises) ==
    LET c == _on_config_robot(s, st, get_raises)
        m == MoveDrives(c.stage, c.self.joints, 1)
    IN  IF c.raised THEN c
        ELSE IF ~HandlePresent(c.self.joints[1])
        THEN [self |-> c.self, stage |-> c.stage, raised |-> FALSE,
              aborted |-> TRUE]
        ELSE [self |-> c.self, stage |-> m.stage, raised |-> m.raised,
              aborted |-> FALSE]

---------------------------------------------------------------------------
(* Gripper Toggle: _on_control_gripper *)

GripperClosedAngle == Int2Num(0)
GripperOpenAngle == Int2Num(-90)

\* The flip of lines 683-697 on a present handle: the target attribute is
\* assigned first, then the drive is written, then the flag is flipped.
MutFlipGripper(s, st) ==
    LET angle == GripperOpenAngle
        set == set_drive_parameters(st, s.joints[GripperJoint], angle,
                                    NoneNum, NoneNum)
        s1 == [s EXCEPT !.gripper_target_position = angle]
    IN  IF ~s.has_gripper_open
        THEN [self |-> s, stage |-> st, raised |-> TRUE, aborted |-> FALSE]
        ELSE IF set.raised
        THEN [self |-> s1, stage |-> st, raised |-> TRUE, aborted |-> FALSE]
        ELSE [self |-> [s1 EXCEPT !.gripper_open = ~s.gripper_open],
              stage |-> set.stage, raised |-> FALSE, aborted |-> FALSE]

MutFlipGripperFlag(s, st) ==
    LET angle == IF s.gripper_open THEN GripperClosedAngle
                 ELSE GripperOpenAngle
        set == set_drive_parameters(st, s.joints[GripperJoint], angle,
                                    NoneNum, NoneNum)
        s1 == [s EXCEPT !.gripper_target_position = angle]
    IN  IF ~s.has_gripper_open
        THEN [self |-> s, stage |-> st, raised |-> TRUE, aborted |-> FALSE]
        ELSE IF set.raised
        THEN [self |-> s1, stage |-> st, raised |-> TRUE, aborted |-> FALSE]
        ELSE [self |-> s1, stage |-> set.stage, raised |-> FALSE,
              aborted |-> FALSE]

FlipGripper(s, st) ==
    LET angle == IF s.gripper_open THEN GripperClosedAngle
                 ELSE GripperOpenAngle
        set == set_drive_parameters(st, s.joints[GripperJoint], angle,
                                    NoneNum, NoneNum)
        s1 == [s EXCEPT !.gripper_target_position = angle]
    IN  IF ~s.has_gripper_open
        THEN \* reading self._gripper_open raises AttributeError
             [self |-> s, stage |-> st, raised |-> TRUE, aborted |-> FALSE]
        ELSE IF set.raised
        THEN [self |-> s1, stage |-> st, raised |-> TRUE, aborted |-> FALSE]
        ELSE [self |-> [s1 EXCEPT !.gripper_open = ~s.gripper_open],
              stage |-> set.stage, raised |-> FALSE, aborted |-> FALSE]

_on_control_gripper(s, st, get_raises) ==
    LET c == IF ~HandlePresent(s.joints[GripperJoint])
             THEN _on_config_robot(s, st, get_raises)
             ELSE [self |-> s, stage |-> st, raised |-> FALSE,
                   aborted |-> FALSE]
    IN  IF c.raised THEN c
        ELSE IF ~HandlePresent(c.self.joints[GripperJoint])
        THEN [self |-> c.self, stage |-> c.stage, raised |-> FALSE,
              aborted |-> TRUE]
        ELSE FlipGripper(c.self, c.stage)

---------------------------------------------------------------------------
(* Motion Policy Bridge: _ensure_rmpflow_setup *)

\* SingleArticulation.initialize() gets its physics handles only while the
\* timeline plays, the physics stepper has run, and the robot prim exists.
CanInitialize(st, sm) == sm.playing /\ sm.physics_ready /\ st.robot

\* articulation.initialize(): the handles become valid when the host allows
\* it; otherwise the call raises or returns with the handles still invalid.
Mut_initialize(art, st, sm) == art

initialize(art, st, sm) ==
    [art EXCEPT !.handles_initialized = @ \/ CanInitialize(st, sm)]

\* Where the construction of the bridge may raise in the host: in
\* SingleArticulation(...), in loading the policy configuration or in
\* RmpFlow(...), in ArticulationMotionPolicy(...) or
\* MotionPolicyController(...), and in the closing report, whose
\* len(dof_names) needs an initialized articulation.
FailPoints == {"none", "articulation", "config", "policy", "report"}

Zeros3 == <<Int2Num(0), Int2Num(0), Int2Num(0)>>
IdentityQuat == <<Int2Num(1), Int2Num(0), Int2Num(0), Int2Num(0)>>

\* The presence check of _ensure_rmpflow_setup: the bridge is READY.
MutBridgeReady(s) == s.rmp_controller # 0 /\ s.z1_articulation.id = 0

MutBridgeReadyInitialized(s) ==
    /\ s.rmp_controller # 0
    /\ s.z1_articulation.id # 0
    /\ s.z1_articulation.handles_initialized

BridgeReady(s) == s.rmp_controller # 0 /\ s.z1_articulation.id # 0

_ensure_rmpflow_setup(s, st, sm, fail_at) ==
    LET art == initialize([id |-> sm.next_id, handles_initialized |-> FALSE],
                          st, sm)
        s1 == [s EXCEPT !.z1_articulation = art]
        flow == [id |-> sm.next_id + 1,
                 base_pos |-> IF art.handles_initialized
                              THEN st.base_pos ELSE Zeros3,
                 base_quat |-> IF art.handles_initialized
                               THEN st.base_quat ELSE IdentityQuat]
        s2 == [s1 EXCEPT !.rmp_flow = flow]
        s3 == [s2 EXCEPT !.rmp_controller = sm.next_id + 2]
    IN  IF BridgeReady(s)
        THEN [self |-> s, sim |-> sm, raised |-> FALSE, constructed |-> FALSE]
        ELSE IF fail_at = "articulation"
        THEN [self |-> s, sim |-> sm, raised |-> TRUE, constructed |-> FALSE]
        ELSE IF fail_at = "config"
        THEN [self |-> s1, sim |-> [sm EXCEPT !.next_id = @ + 1],
              raised |-> TRUE, constructed |-> FALSE]
        ELSE IF fail_at = "policy"
        THEN [self |-> s2, sim |-> [sm EXCEPT !.next_id = @ + 2],
              raised |-> TRUE, constructed |-> FALSE]
        ELSE [self |-> s3, sim |-> [sm EXCEPT !.next_id = @ + 3],
              raised |-> (fail_at = "report" /\ ~art.handles_initialized),
              constructed |-> TRUE]

---------------------------------------------------------------------------
(* Target Prim Manager: _create_rmp_target_prim *)

\* The cube as created: an orient op set to Gf.Quatf(1, 0, 0, 0), then a
\* translate op set to Gf.Vec3f(0.4, 0.0, 0.4).
CreatedTargetOps ==
    <<OpOrient(Gf_Quatf(Int2Num(1), Int2Num(0), Int2Num(0), Int2Num(0))),
      OpTranslate(Gf_Vec3f(Rat(4, 10), Int2Num(0), Rat(4, 10)))>>

\* target_defined records that UsdGeom.Cube.Define has been called for the
\* target path on this stage.
Mut_create_rmp_target_prim(st) ==
    [st EXCEPT !.target = [valid |-> TRUE, ops |-> CreatedTargetOps],
               !.target_defined = TRUE]

_create_rmp_target_prim(st) ==
    IF ~st.target.valid
    THEN [st EXCEPT !.target = [valid |-> TRUE, ops |-> CreatedTargetOps],
                    !.target_defined = TRUE]
    ELSE st

---------------------------------------------------------------------------
(* RMPflow Follow: _on_rmpflow_follow_button *)

\* The check before subscribe_physics_step_events: no subscription is
\* stored.
MutNeedsSubscription(s) == TRUE

NeedsSubscription(s) == s.rmp_physx_subscription = 0

\* The objects a Follow click may ask the host for: the articulation
\* wrapper, the policy and the controller, and the subscription.
IdsNeeded(s) ==
    (IF BridgeReady(s) THEN 0 ELSE 3)
        + (IF NeedsSubscription(s) THEN 1 ELSE 0)

\* The hasattr checks of lines 1207-1213: an attribute the instance lacks
\* gets its default.  _gripper_target_position and _debug_gripper_lock are
\* attributes since on_startup.
MutEnsureGripperDefaults(s) ==
    [s EXCEPT !.has_gripper_open = TRUE, !.gripper_open = FALSE]

EnsureGripperDefaults(s) ==
    IF s.has_gripper_open THEN s
    ELSE [s EXCEPT !.has_gripper_open = TRUE, !.gripper_open = FALSE]

_on_rmpflow_follow_button(s, st, sm, fail_at) ==
    LET s0 == EnsureGripperDefaults(s)
        e == _ensure_rmpflow_setup(s0, st, sm, fail_at)
        st1 == _create_rmp_target_prim(st)
        subscribe == NeedsSubscription(e.self)
        s1 == IF subscribe
              THEN [e.self EXCEPT !.rmp_physx_subscription = e.sim.next_id]
              ELSE e.self
        sm1 == IF subscribe
               THEN [e.sim EXCEPT !.next_id = @ + 1, !.subscribers = @ + 1]
               ELSE e.sim
    IN  IF e.raised
        THEN [self |-> e.self, stage |-> st, sim |-> e.sim, raised |-> TRUE,
              aborted |-> FALSE, constructed |-> e.constructed]
        ELSE [self |-> s1, stage |-> st1,
              sim |-> [sm1 EXCEPT !.playing = TRUE],
              raised |-> FALSE, aborted |-> FALSE,
              constructed |-> e.constructed]

---------------------------------------------------------------------------
(* Physics-Step Coordinator: _on_rmpflow_physics_step *)

\* cos and sin of half an Euler angle given in degrees, for the angles the
\* model rotates the target by (multiples of 180 degrees, where both are
\* integers): math.cos(math.radians(e) * 0.5), math.sin(...).
CosHalf(deg) == CASE deg = 0 -> 1 [] deg = 180 -> 0 [] deg = -180 -> 0
                  [] OTHER -> -1
SinHalf(deg) == CASE deg = 0 -> 0 [] deg = 180 -> 1 [] deg = -180 -> -1
                  [] OTHER -> 0

\* Lines 855-872: Euler XYZ degrees to a quaternion (w, x, y, z).
EulerToQuat(euler) ==
    LET cr == CosHalf(euler[1].n)  sr == SinHalf(euler[1].n)
        cp == CosHalf(euler[2].n)  sp == SinHalf(euler[2].n)
        cy == CosHalf(euler[3].n)  sy == SinHalf(euler[3].n)
    IN  Gf_Quatf(Int2Num(cr * cp * cy + sr * sp * sy),
                 Int2Num(sr * cp * cy - cr * sp * sy),
                 Int2Num(cr * sp * cy + sr * cp * sy),
                 Int2Num(cr * cp * sy - sr * sp * cy))

\* The defaults of lines 834-835: Gf.Vec3d(0.4, 0.0, 0.4) and
\* Gf.Quatf(1, 0, 0, 0).
DefaultPos == Gf_Vec3d(Rat(4, 10), Int2Num(0), Rat(4, 10))
DefaultQuat == Gf_Quatf(Int2Num(1), Int2Num(0), Int2Num(0), Int2Num(0))

\* The loop of lines 838-872 over the ordered xform ops, from op i on: a
\* translate op replaces pos, an orient or rotateXYZ op replaces quat, any
\* other op is passed over.
RECURSIVE ReadOps(_, _, _, _)
ReadOps(ops, i, pos, quat) ==
    IF i > Len(ops) THEN [pos |-> pos, quat |-> quat]
    ELSE IF ops[i].type = "translate"
    THEN ReadOps(ops, i + 1, ops[i].val, quat)
    ELSE IF ops[i].type = "orient"
    THEN ReadOps(ops, i + 1, pos, ops[i].val)
    ELSE IF ops[i].type = "rotateXYZ"
    THEN ReadOps(ops, i + 1, pos, EulerToQuat(ops[i].val))
    ELSE ReadOps(ops, i + 1, pos, quat)

\* np.array([...], dtype=float) of Gf values: a single-precision component
\* widens to double without change.
MutTargetPose(ops) == ReadOps(ops, 2, DefaultPos, DefaultQuat)

TargetPose(ops) == ReadOps(ops, 1, DefaultPos, DefaultQuat)

QuatHalfTurnZ == Gf_Quatf(Int2Num(0), Int2Num(0), Int2Num(0), Int2Num(1))
MovedPos == Gf_Vec3d(Rat(1, 2), Int2Num(0), Rat(1, 4))
EulerHalfTurnZ == <<Int2Num(0), Int2Num(0), Int2Num(180)>>
EulerHalfTurnX == <<Int2Num(180), Int2Num(0), Int2Num(0)>>

\* The xform ops the user may leave on the target prim: moved, rotated,
\* switched to Euler rotation, stripped of its ops, or carrying both kinds
\* of rotation.
UserTargetOps ==
    {<<OpOrient(DefaultQuat), OpTranslate(MovedPos)>>,
     <<OpOrient(QuatHalfTurnZ), OpTranslate(DefaultPos)>>,
     <<OpTranslate(MovedPos), OpRotateXYZ(EulerHalfTurnZ)>>,
     <<OpOrient(QuatHalfTurnZ), OpTranslate(MovedPos),
       OpRotateXYZ(EulerHalfTurnX)>>,
     <<OpTranslate(MovedPos)>>,
     <<OpScale(<<Int2Num(2), Int2Num(2), Int2Num(2)>>)>>,
     <<>>}

\* The poses of the op lists a target prim carries in this model, computed
\* once.
TargetPoseOf ==
    [ops \in UserTargetOps \cup {CreatedTargetOps} |-> TargetPose(ops)]

\* "gripper" in name.lower() or "jointgripper" in name.lower()
IsGripperName(name) ==
    str_in(S_gripper, str_lower(name)) \/ str_in(S_jointgripper, str_lower(name))

\* The loop of lines 900-904: the index (from 1; 0 is None) of the first
\* DOF name that matches.
MutGripperJointIndex(names) ==
    IF \E i \in 1..Len(names) : IsGripperName(names[i])
    THEN CHOOSE i \in 1..Len(names) :
            /\ IsGripperName(names[i])
            /\ \A k \in (i + 1)..Len(names) : ~IsGripperName(names[k])
    ELSE 0

GripperJointIndex(names) ==
    IF \E i \in 1..Len(names) : IsGripperName(names[i])
    THEN CHOOSE i \in 1..Len(names) :
            /\ IsGripperName(names[i])
            /\ \A k \in 1..(i - 1) : ~IsGripperName(names[k])
    ELSE 0

\* The index for each layout, computed once.
GripperIndexOf ==
    [l \in DofLayouts |-> GripperJointIndex(dof_names(l))]

\* The try block of lines 895-923 on the action `out` forward() returned.
\* names_raise: reading dof_names raises.  The result is the action to
\* apply and where the block raised: "no", "names", "index" (no slot at the
\* gripper index) or "format" (the debug line cannot format a None slot,
\* after the slot was overwritten).
PatchGripper(s, layout, out, names_raise) ==
    LET idx == GripperIndexOf[layout]
        target_rad == math_radians(s.gripper_target_position)
    IN  IF names_raise
        THEN [action |-> out, raised |-> "names", index |-> 0]
        ELSE IF idx = 0 \/ ~out.has_positions
        THEN [action |-> out, raised |-> "no", index |-> idx]
        ELSE IF idx > Len(out.positions)
        THEN [action |-> out, raised |-> "index", index |-> idx]
        ELSE [action |-> [out EXCEPT !.positions[idx] = target_rad],
              raised |-> IF s.debug_gripper_lock /\ ~IsNum(out.positions[idx])
                         THEN "format" ELSE "no",
              index |-> idx]

\* try: initialize() except: pass (lines 816-819), and the try/except
\* Exception of the gripper patch (lines 895-929): whether an exception
\* raised inside leaves the statement.
MutInitializeEscapes(raises) == raises

InitializeEscapes(raises) == FALSE

MutPatchEscapes(raised) == raised # "no"

PatchEscapes(raised) == FALSE

\* Whether the callback goes on after its check of the handles (lines
\* 814-822).
MutHandlesOk(art) == TRUE

HandlesOk(art) == art.handles_initialized

\* Whether the callback goes on after its look for the target prim (lines
\* 825-827).
MutTargetOk(st) == TRUE

TargetOk(st) == st.target.valid

\* init_raises: initialize(), when it cannot get the handles, raises rather
\* than returns.  out: what forward() returns.  names_raise: reading
\* dof_names raises.
_on_rmpflow_physics_step(s, st, sm, init_raises, out, names_raise) ==
    LET before == s.z1_articulation.handles_initialized
        art == IF before THEN s.z1_articulation
               ELSE initialize(s.z1_articulation, st, sm)
        init_raised == ~before /\ ~CanInitialize(st, sm) /\ init_raises
        s1 == [s EXCEPT !.z1_articulation = art]
        pose == TargetPoseOf[st.target.ops]
        patch == PatchGripper(s1, st.dof_layout, out, names_raise)
        base == [NoTick EXCEPT !.handles_before = before,
                               !.initialize_calls = IF before THEN 0 ELSE 1,
                               !.initialize_raised = init_raised,
                               !.gripper_target = s.gripper_target_position]
    IN  IF s.rmp_controller = 0 \/ s.z1_articulation.id = 0
        THEN [self |-> s, tick |-> [NoTick EXCEPT !.outcome = "not_ready"]]
        ELSE IF init_raised /\ InitializeEscapes(init_raised)
        THEN [self |-> s1, tick |-> [base EXCEPT !.outcome = "raised",
                                                 !.raised = TRUE]]
        ELSE IF ~HandlesOk(art)
        THEN [self |-> s1, tick |-> [base EXCEPT !.outcome = "uninitialized"]]
        ELSE IF ~TargetOk(st)
        THEN [self |-> s1, tick |-> [base EXCEPT !.outcome = "no_target"]]
        ELSE IF PatchEscapes(patch.raised)
        THEN [self |-> s1,
              tick |-> [base EXCEPT
                  !.outcome = "raised",
                  !.raised = TRUE,
                  !.forward_calls = 1,
                  !.target_pos = pose.pos,
                  !.target_ori = pose.quat,
                  !.has_positions = out.has_positions,
                  !.raw = out.positions,
                  !.gripper_joint_index = patch.index,
                  !.patch_raised = patch.raised]]
        ELSE [self |-> s1,
              tick |-> [base EXCEPT
                  !.outcome = "applied",
                  !.forward_calls = 1,
                  !.apply_calls = 1,
                  !.target_pos = pose.pos,
                  !.target_ori = pose.quat,
                  !.has_positions = out.has_positions,
                  !.raw = out.positions,
                  !.applied = patch.action.positions,
                  !.gripper_joint_index = patch.index,
                  !.patch_raised = patch.raised]]

---------------------------------------------------------------------------
(* Camera-pose printer: _camera_pose_printer_loop *)

\* At most this many camera-pose lines of one task are counted.
MaxLines == 2

\* A task as asyncio.ensure_future(self._camera_pose_printer_loop()) makes
\* it: scheduled, the coroutine not yet started.  status is "running",
\* "cancelled" (cancel() was called, CancelledError is to be thrown into the
\* coroutine when the event loop next runs the task) or "done"; at is the
\* await the coroutine is suspended at, by its line; lines counts the
\* [CAM_ROT] lines written; last is what the last run of the task did.
NewPrinterTask ==
    [status |-> "running", at |-> "start", lines |-> 0, last |-> "none"]

\* Task.cancel()
task_cancel(t) ==
    IF t.status = "running" THEN [t EXCEPT !.status = "cancelled"] ELSE t

\* CancelledError thrown into the coroutine where it is suspended: at the
\* sleeps of lines 332 and 339, inside the try, the except clause of line
\* 350 writes a newline and returns; at the sleep of line 357, outside the
\* try, and before the coroutine has started, the task ends cancelled.
MutResumeCancelled(t) ==
    IF t.at \in {"sleep_332", "sleep_339"}
    THEN [t EXCEPT !.status = "running", !.at = "sleep_357",
                   !.last = "warning"]
    ELSE [t EXCEPT !.status = "done", !.last = "cancelled"]

ResumeCancelled(t) ==
    IF t.at \in {"sleep_332", "sleep_339"}
    THEN [t EXCEPT !.status = "done", !.last = "newline"]
    ELSE [t EXCEPT !.status = "done", !.last = "cancelled"]

\* One run of the task by the event loop, to its next await or its end.
\* raises: something inside the try block raises an exception other than
\* CancelledError.
_camera_pose_printer_loop(t, s, st, raises) ==
    IF t.status = "cancelled"
    THEN ResumeCancelled(t)
    ELSE IF raises
    THEN [t EXCEPT !.at = "sleep_357", !.last = "warning"]
    ELSE IF s.rgb_camera_prim_path = "None"
            \/ s.depth_camera_prim_path = "None"
    THEN [t EXCEPT !.at = "sleep_332", !.last = "skipped"]
    ELSE IF s.rgb_camera_prim_path \notin st.cameras
            \/ s.depth_camera_prim_path \notin st.cameras
    THEN [t EXCEPT !.at = "sleep_339", !.last = "skipped"]
    ELSE [t EXCEPT !.at = "sleep_357", !.lines = @ + 1, !.last = "line"]

---------------------------------------------------------------------------
(* Debug toggle, camera setup, shutdown *)

_on_toggle_debug(s) == [s EXCEPT !.debug_gripper_lock = ~@]

\* The camera prims _setup_d435i_camera removes when forced: the stray
\* paths under the robot and the camera link.
StrayCameraPaths ==
    {"robot/Camera", "robot/camera", "link/Camera", "link/camera",
     "link/rgb_camera", "link/depth_camera",
     "link/camera_color_optical_frame/rgb_camera",
     "link/camera_depth_optical_frame/depth_camera"}

\* The search of lines 976-984: a camera_link prim is valid at one of the
\* two candidate paths.
MutCameraLinkFound(st) == TRUE

CameraLinkFound(st) == st.camera_link

\* _setup_d435i_camera(force_create).  define_fails: where the host raises
\* inside the try block that defines the two cameras ("no", "rgb", "depth").
_setup_d435i_camera(s, st, sm, force_create, define_fails) ==
    LET cleaned == IF force_create THEN st.cameras \ StrayCameraPaths
                   ELSE st.cameras
        rgb_path == IF st.optical_frames
                    THEN "link/camera_color_optical_frame/rgb_camera"
                    ELSE "link/rgb_camera"
        depth_path == IF st.optical_frames
                      THEN "link/camera_depth_optical_frame/depth_camera"
                      ELSE "link/depth_camera"
        st1 == [st EXCEPT !.cameras = cleaned]
    IN  IF ~CameraLinkFound(st)
        THEN [self |-> s, stage |-> st, sim |-> sm, aborted |-> TRUE]
        ELSE IF rgb_path \in cleaned /\ ~force_create
        THEN [self |-> s, stage |-> st1, sim |-> sm, aborted |-> FALSE]
        ELSE IF define_fails = "rgb"
        THEN [self |-> s, stage |-> st1, sim |-> sm, aborted |-> FALSE]
        ELSE IF define_fails = "depth"
        THEN [self |-> s,
              stage |-> [st1 EXCEPT !.cameras = @ \cup {rgb_path}],
              sim |-> sm, aborted |-> FALSE]
        ELSE [self |-> [s EXCEPT !.rgb_camera_prim_path = rgb_path,
                                 !.depth_camera_prim_path = depth_path,
                                 !.camera_pose_print_task = TRUE],
              stage |-> [st1 EXCEPT !.cameras = @ \cup {rgb_path, depth_path}],
              sim |-> IF s.camera_pose_print_task THEN sm
                      ELSE [sm EXCEPT !.printers = Append(@, NewPrinterTask)],
              aborted |-> FALSE]

\* on_shutdown: the subscription, the controller and the articulation are
\* set to None; the printer task, when there is one, is cancelled and the
\* attribute set to None.  Dropping the subscription object unsubscribes
\* the callback.
Mut_on_shutdown(s, sm) ==
    [self |-> [s EXCEPT !.rmp_physx_subscription = 0,
                        !.camera_pose_print_task = FALSE],
     sim |-> [sm EXCEPT !.phase = "shutdown",
                        !.subscribers = IF s.rmp_physx_subscription # 0
                                        THEN @ - 1 ELSE @,
                        !.printers = IF s.camera_pose_print_task
                                     THEN [sm.printers EXCEPT
                                              ![Len(sm.printers)] =
                                                  task_cancel(@)]
                                     ELSE @]]

on_shutdown(s, sm) ==
    [self |-> [s EXCEPT !.rmp_physx_subscription = 0,
                        !.rmp_controller = 0,
                        !.z1_articulation = NoArticulation,
                        !.camera_pose_print_task = FALSE],
     sim |-> [sm EXCEPT !.phase = "shutdown",
                        !.subscribers = IF s.rmp_physx_subscription # 0
                                        THEN @ - 1 ELSE @,
                        !.printers = IF s.camera_pose_print_task
                                     THEN [sm.printers EXCEPT
                                              ![Len(sm.printers)] =
                                                  task_cancel(@)]
                                     ELSE @]]

---------------------------------------------------------------------------
(* Load: _on_load_robot and _load_robot *)

\* What the URDF import may leave on the new stage.
Imported(scheme, njoints, layout, camera_link, optical_frames, base_pos) ==
    [robot |-> TRUE, scheme |-> scheme, njoints |-> njoints,
     dof_layout |-> layout, camera_link |-> camera_link,
     optical_frames |-> optical_frames, base_pos |-> base_pos]

ImportVariants ==
    {Imported("joints", NumJoints, "z1", TRUE, FALSE, Zeros3),
     Imported("flat", NumJoints, "z1", TRUE, TRUE,
              <<Int2Num(1), Int2Num(0), Int2Num(0)>>),
     Imported("joints", PartialJoints, "arm_only", FALSE, FALSE, Zeros3),
     Imported("flat", PartialJoints, "two_grippers", FALSE, FALSE, Zeros3),
     Imported("other", NumJoints, "two_grippers", FALSE, FALSE, Zeros3),
     [Imported("other", 0, "none", FALSE, FALSE, <<>>) EXCEPT !.robot = FALSE]}

\* _load_robot from the import to its await asyncio.sleep(0.1): the robot
\* as imported, the physics scene and the light.
_load_robot(st, v) ==
    [st EXCEPT !.robot = v.robot, !.scheme = v.scheme,
               !.njoints = v.njoints, !.dof_layout = v.dof_layout,
               !.camera_link = v.camera_link,
               !.optical_frames = v.optical_frames,
               !.base_pos = v.base_pos,
               !.base_quat = IF v.robot THEN IdentityQuat ELSE <<>>,
               !.drives = [j \in Joints |->
                             IF v.robot /\ j <= v.njoints
                             THEN ImportedDrive ELSE NoDrive],
               !.physics_scene = TRUE, !.light = TRUE]

---------------------------------------------------------------------------
(* Inputs the host and the user supply *)

\* What forward() may return for an articulation with these DOF names: a
\* full vector of joint positions (two different ones), a full vector with
\* None in the slots of the joints the policy does not drive, a vector one
\* slot short, or an action without joint positions.
PolicyOutputsFor(names) ==
    LET n == Len(names)
    IN  {[has_positions |-> TRUE, positions |-> [i \in 1..n |-> Rat(i, 10)]],
         [has_positions |-> TRUE, positions |-> [i \in 1..n |-> Rat(-3 * i, 10)]],
         [has_positions |-> TRUE,
          positions |-> [i \in 1..n |-> IF IsGripperName(names[i])
                                        THEN NoneNum ELSE Rat(i, 10)]],
         [has_positions |-> TRUE,
          positions |-> [i \in 1..(n - 1) |-> Rat(i, 10)]],
         [has_positions |-> FALSE, positions |-> <<>>]}

PolicyOutputs == [l \in DofLayouts |-> PolicyOutputsFor(dof_names(l))]

\* An input that the handler will not read is not enumerated.
NoOutput == [has_positions |-> FALSE, positions |-> <<>>]

---------------------------------------------------------------------------
(* The state machine *)

Init ==
    /\ self = on_startup
    /\ stage = EmptyStage(0)
    /\ sim = [phase |-> "running", playing |-> FALSE,
              physics_ready |-> FALSE, next_id |-> 1, load_pc |-> "idle",
              subscribers |-> 0, printers |-> <<>>]
    /\ tick = NoTick
    /\ ui = NoUi

Running == sim.phase = "running"

\* Load button: _on_load_robot schedules the new stage and _load_robot.
ClickLoad ==
    /\ Running
    /\ sim.load_pc = "idle"
    /\ stage.gen < MaxLoads
    /\ sim' = [sim EXCEPT !.load_pc = "new_stage"]
    /\ ui' = UiOf("load", [raised |-> FALSE, aborted |-> FALSE])
    /\ tick' = NoTick
    /\ UNCHANGED <<self, stage>>

\* The host finishes new_stage_async: an empty stage replaces the current
\* one, the timeline stops and every physics handle becomes invalid.
NewStageDone ==
    /\ sim.load_pc = "new_stage"
    /\ stage' = EmptyStage(stage.gen + 1)
    /\ sim' = [sim EXCEPT !.load_pc = "import", !.playing = FALSE,
                          !.physics_ready = FALSE]
    /\ self' = [self EXCEPT !.z1_articulation.handles_initialized = FALSE]
    /\ tick' = NoTick
    /\ ui' = NoUi

\* _load_robot resumes: the import, the physics scene, the light.
LoadImport ==
    /\ sim.load_pc = "import"
    /\ \E v \in ImportVariants : stage' = _load_robot(stage, v)
    /\ sim' = [sim EXCEPT !.load_pc = "camera"]
    /\ tick' = NoTick
    /\ ui' = NoUi
    /\ UNCHANGED self

\* _load_robot after its sleep: self._setup_d435i_camera().
LoadCamera ==
    /\ sim.load_pc = "camera"
    /\ \E f \in {"no", "rgb", "depth"} :
         \E r \in {_setup_d435i_camera(self, stage, sim, FALSE, f)} :
             /\ self' = r.self
             /\ stage' = r.stage
             /\ sim' = [r.sim EXCEPT !.load_pc = "idle"]
    /\ tick' = NoTick
    /\ ui' = NoUi

ClickConfigure ==
    /\ Running
    /\ \E get_raises \in BOOLEAN :
         \E r \in {_on_config_robot(self, stage, get_raises)} :
             /\ self' = r.self
             /\ stage' = r.stage
             /\ ui' = UiOf("config", r)
    /\ tick' = NoTick
    /\ UNCHANGED sim

ClickMove ==
    /\ Running
    /\ \E get_raises \in BOOLEAN :
         \E r \in {_on_config_drives(self, stage, get_raises)} :
             /\ self' = r.self
             /\ stage' = r.stage
             /\ ui' = UiOf("move", r)
    /\ tick' = NoTick
    /\ UNCHANGED sim

ClickGripper ==
    /\ Running
    /\ \E get_raises \in BOOLEAN :
         \E r \in {_on_control_gripper(self, stage, get_raises)} :
             /\ self' = r.self
             /\ stage' = r.stage
             /\ ui' = UiOf("gripper", r)
    /\ tick' = NoTick
    /\ UNCHANGED sim

ClickFollow ==
    /\ Running
    /\ sim.next_id + IdsNeeded(self) - 1 <= MaxObjects
    /\ \E f \in (IF self.rmp_controller # 0 /\ self.z1_articulation.id # 0
                  THEN {"none"} ELSE FailPoints) :
         \E r \in {_on_rmpflow_follow_button(self, stage, sim, f)} :
             /\ self' = r.self
             /\ stage' = r.stage
             /\ sim' = r.sim
             /\ ui' = [UiOf("follow", r) EXCEPT
                          !.constructed = r.constructed]
    /\ tick' = NoTick

ClickDebug ==
    /\ Running
    /\ self' = _on_toggle_debug(self)
    /\ ui' = UiOf("debug", [raised |-> FALSE, aborted |-> FALSE])
    /\ tick' = NoTick
    /\ UNCHANGED <<stage, sim>>

ClickReconfigureCamera ==
    /\ Running
    /\ \E f \in {"no", "rgb", "depth"} :
         \E r \in {_setup_d435i_camera(self, stage, sim, TRUE, f)} :
             /\ self' = r.self
             /\ stage' = r.stage
             /\ sim' = r.sim
             /\ ui' = UiOf("camera", [raised |-> FALSE, aborted |-> r.aborted])
    /\ tick' = NoTick

Shutdown ==
    /\ Running
    /\ \E r \in {on_shutdown(self, sim)} :
           /\ self' = r.self
           /\ sim' = r.sim
    /\ ui' = UiOf("shutdown", [raised |-> FALSE, aborted |-> FALSE])
    /\ tick' = NoTick
    /\ UNCHANGED stage

\* A camera prim left directly under the robot prim, of the kind the
\* forced setup cleans up: here the user creates one.
UserCreateStrayCamera ==
    /\ stage.robot
    /\ "robot/Camera" \notin stage.cameras
    /\ stage' = [stage EXCEPT !.cameras = @ \cup {"robot/Camera"}]
    /\ tick' = NoTick
    /\ ui' = NoUi
    /\ UNCHANGED <<self, sim>>

\* The event loop runs printer task i to its next await or to its end.
PrinterStepOf(i) ==
    /\ i <= Len(sim.printers)
    /\ sim.printers[i].status \in {"running", "cancelled"}
    /\ sim.printers[i].status = "cancelled"
         \/ sim.printers[i].lines < MaxLines
    /\ \E raises \in (IF sim.printers[i].status = "running"
                       THEN BOOLEAN ELSE {FALSE}) :
         sim' = [sim EXCEPT !.printers[i] =
                    _camera_pose_printer_loop(@, self, stage, raises)]
    /\ tick' = NoTick
    /\ ui' = NoUi
    /\ UNCHANGED <<self, stage>>

PrinterStep == \E i \in 1..Len(sim.printers) : PrinterStepOf(i)

\* The user starts or stops the timeline; stopping invalidates the physics
\* handles.
TimelinePlay ==
    /\ ~sim.playing
    /\ sim' = [sim EXCEPT !.playing = TRUE]
    /\ tick' = NoTick
    /\ ui' = NoUi
    /\ UNCHANGED <<self, stage>>

TimelineStop ==
    /\ sim.playing
    /\ sim' = [sim EXCEPT !.playing = FALSE, !.physics_ready = FALSE]
    /\ self' = [self EXCEPT !.z1_articulation.handles_initialized = FALSE]
    /\ tick' = NoTick
    /\ ui' = NoUi
    /\ UNCHANGED stage

\* The physics stepper has run a frame: articulations can be initialized.
PhysicsReady ==
    /\ sim.playing
    /\ ~sim.physics_ready
    /\ sim' = [sim EXCEPT !.physics_ready = TRUE]
    /\ tick' = NoTick
    /\ ui' = NoUi
    /\ UNCHANGED <<self, stage>>

\* The user moves, rotates or edits the target prim, or deletes it.
UserMoveTarget ==
    /\ stage.target.valid
    /\ \E ops \in UserTargetOps : stage' = [stage EXCEPT !.target.ops = ops]
    /\ tick' = NoTick
    /\ ui' = NoUi
    /\ UNCHANGED <<self, sim>>

UserDeleteTarget ==
    /\ stage.target.valid
    /\ stage' = [stage EXCEPT !.target = NoPrim]
    /\ tick' = NoTick
    /\ ui' = NoUi
    /\ UNCHANGED <<self, sim>>

\* The inputs a physics step reads in the current state: initialize()'s
\* way of failing when it is called and cannot succeed; forward()'s result
\* and the reading of dof_names when the step gets that far.
StepCallsInitialize ==
    /\ self.rmp_controller # 0 /\ self.z1_articulation.id # 0
    /\ ~self.z1_articulation.handles_initialized

StepCallsForward ==
    /\ self.rmp_controller # 0 /\ self.z1_articulation.id # 0
    /\ self.z1_articulation.handles_initialized \/ CanInitialize(stage, sim)
    /\ stage.target.valid

StepInitInputs ==
    IF StepCallsInitialize /\ ~CanInitialize(stage, sim) THEN BOOLEAN
    ELSE {FALSE}

StepNamesInputs == IF StepCallsForward THEN BOOLEAN ELSE {FALSE}

StepOutputs ==
    IF StepCallsForward THEN PolicyOutputs[stage.dof_layout] ELSE {NoOutput}

\* One physics step: the host calls the subscribed callback; after
\* shutdown a step already dispatched may still arrive.
PhysicsStep ==
    /\ sim.playing
    /\ sim.subscribers > 0 \/ sim.phase = "shutdown"
    /\ \E init_raises \in StepInitInputs, names_raise \in StepNamesInputs :
       \E out \in StepOutputs :
         \E r \in {_on_rmpflow_physics_step(self, stage, sim, init_raises,
                                              out, names_raise)} :
             /\ self' = r.self
             /\ tick' = r.tick
    /\ ui' = NoUi
    /\ UNCHANGED <<stage, sim>>

Next ==
    \/ ClickLoad
    \/ NewStageDone
    \/ LoadImport
    \/ LoadCamera
    \/ ClickConfigure
    \/ ClickMove
    \/ ClickGripper
    \/ ClickFollow
    \/ ClickDebug
    \/ ClickReconfigureCamera
    \/ Shutdown
    \/ TimelinePlay
    \/ TimelineStop
    \/ PhysicsReady
    \/ UserMoveTarget
    \/ UserDeleteTarget
    \/ UserCreateStrayCamera
    \/ PhysicsStep
    \/ PrinterStep

Spec == Init /\ [][Next]_vars

---------------------------------------------------------------------------
(* Specifications of the subsystems.  Spec is the whole extension; each of *)
(* the following lets the host and the user take the steps one subsystem   *)
(* depends on, so that its reachable states can be enumerated.             *)

\* The drive subsystem: Load, Configure, Move, Gripper.
NextDrives ==
    \/ ClickLoad
    \/ NewStageDone
    \/ LoadImport
    \/ LoadCamera
    \/ ClickConfigure
    \/ ClickMove
    \/ ClickGripper

SpecDrives == Init /\ [][NextDrives]_vars

\* The bridge, the target prim and the physics step: Load, Follow, the
\* timeline, the user's edits of the target, the physics steps.
NextFollow ==
    \/ ClickLoad
    \/ NewStageDone
    \/ LoadImport
    \/ LoadCamera
    \/ ClickFollow
    \/ TimelinePlay
    \/ TimelineStop
    \/ PhysicsReady
    \/ UserMoveTarget
    \/ UserDeleteTarget
    \/ PhysicsStep

SpecFollow == Init /\ [][NextFollow]_vars

\* The gripper lock of the physics step: one Load, Follow, the timeline,
\* Gripper, Debug, the physics steps.
MaxLoadsPatch == 1

LoadOnce == stage.gen < MaxLoadsPatch /\ ClickLoad

NextPatch ==
    \/ LoadOnce
    \/ NewStageDone
    \/ LoadImport
    \/ LoadCamera
    \/ ClickFollow
    \/ ClickGripper
    \/ ClickDebug
    \/ TimelinePlay
    \/ TimelineStop
    \/ PhysicsReady
    \/ PhysicsStep

SpecPatch == Init /\ [][NextPatch]_vars

\* The gripper state and everything that may touch it: one Load, Configure,
\* Move, Gripper, Follow, Debug, the camera reconfiguration, the physics
\* steps.
NextGripperState ==
    \/ LoadOnce
    \/ NewStageDone
    \/ LoadImport
    \/ LoadCamera
    \/ ClickConfigure
    \/ ClickMove
    \/ ClickGripper
    \/ ClickFollow
    \/ ClickDebug
    \/ ClickReconfigureCamera
    \/ PhysicsReady
    \/ PhysicsStep

SpecGripperState == Init /\ [][NextGripperState]_vars

\* Shutdown: one Load, Configure, Follow, the camera reconfiguration, the
\* physics steps, and the host unloading the extension.
NextShutdown ==
    \/ LoadOnce
    \/ NewStageDone
    \/ LoadImport
    \/ LoadCamera
    \/ ClickConfigure
    \/ ClickFollow
    \/ ClickReconfigureCamera
    \/ PhysicsReady
    \/ PhysicsStep
    \/ Shutdown

SpecShutdown == Init /\ [][NextShutdown]_vars

\* The camera-pose printer: Load, the camera reconfiguration, shutdown, and
\* the event loop running the printer tasks.  The host's event loop keeps
\* running every task that is ready, so a task that can run eventually does.
MaxTasks == 2

NextPrinter ==
    \/ ClickLoad
    \/ NewStageDone
    \/ LoadImport
    \/ LoadCamera
    \/ ClickReconfigureCamera
    \/ Shutdown
    \/ PrinterStep

SpecPrinter ==
    /\ Init
    /\ [][NextPrinter]_vars
    /\ \A i \in 1..MaxTasks : WF_vars(PrinterStepOf(i))

\* The camera setup: Load, the camera reconfiguration, stray camera prims,
\* the printer task.
NextCamera ==
    \/ ClickLoad
    \/ NewStageDone
    \/ LoadImport
    \/ LoadCamera
    \/ ClickReconfigureCamera
    \/ UserCreateStrayCamera
    \/ PrinterStep

SpecCamera == Init /\ [][NextCamera]_vars

\* The lazy initialization of the physics step: one Load, Follow, the
\* timeline, the deletion of the target, the physics steps.  While the
\* timeline plays the host's physics stepper calls the subscribed callback
\* at every step, so a physics step that stays possible is taken.
NextRetry ==
    \/ LoadOnce
    \/ NewStageDone
    \/ LoadImport
    \/ LoadCamera
    \/ ClickFollow
    \/ TimelinePlay
    \/ TimelineStop
    \/ PhysicsReady
    \/ UserDeleteTarget
    \/ PhysicsStep

SpecRetry == Init /\ [][NextRetry]_vars /\ WF_vars(PhysicsStep)

\* Re-loading: Load (repeatedly), Configure, Gripper, Follow, and the
\* timeline started so that a bridge can be constructed initialized.
NextReload ==
    \/ ClickLoad
    \/ NewStageDone
    \/ LoadImport
    \/ LoadCamera
    \/ ClickConfigure
    \/ ClickGripper
    \/ ClickFollow
    \/ TimelinePlay
    \/ PhysicsReady

SpecReload == Init /\ [][NextReload]_vars

---------------------------------------------------------------------------
(* Claims *)

\* A physics step got as far as the check of the articulation's handles.
TickPastReady == tick.outcome \notin {"idle", "not_ready"}

\* C1: on a physics step that finds the articulation's handles not
\* initialized, and still not initialized after its own initialize()
\* (also when that call raised), the callback does not raise, does not
\* call forward() and does not apply an action.
C1_UninitializedTickSkips ==
    (/\ TickPastReady
     /\ ~tick.handles_before
     /\ ~self.z1_articulation.handles_initialized)
        => (/\ ~tick.raised
            /\ tick.forward_calls = 0
            /\ tick.apply_calls = 0)

\* A step whose initialize() raised and left the handles uninitialized.
C1_Witness ==
    /\ tick.outcome = "uninitialized"
    /\ tick.initialize_calls = 1
    /\ tick.initialize_raised
    /\ ~self.z1_articulation.handles_initialized
    /\ stage.target.valid

\* The DOF indices (from 1) whose name contains "gripper", whatever the
\* case of its letters, and the first of them, for the robot on the stage.
GripperDofsOf ==
    [l \in DofLayouts |->
        {i \in 1..Len(dof_names(l)) :
            str_in(S_gripper, str_lower(dof_names(l)[i]))}]

IsFirstGripperDof(i) ==
    /\ i \in GripperDofsOf[stage.dof_layout]
    /\ \A k \in GripperDofsOf[stage.dof_layout] : i <= k

\* The applied action carries the gripper target, in radians, in slot i and
\* the policy's output in every other slot.
GripperSlotOverridden(i) ==
    /\ i \in DOMAIN tick.applied
    /\ tick.applied[i] = math_radians(self.gripper_target_position)
    /\ DOMAIN tick.applied = DOMAIN tick.raw
    /\ \A k \in DOMAIN tick.applied : k # i => tick.applied[k] = tick.raw[k]

\* C2 (as amended): on every physics step that applies an action, where
\* the articulation has a DOF whose name contains "gripper", the reading of
\* the DOF names did not raise, and the policy's action has joint positions
\* with a slot at the first such DOF index, that slot of the applied action
\* is the gripper target converted from degrees to radians and every other
\* slot is the policy's output.
C2_GripperSlotOverriddenWhenPatchable ==
    \A i \in 1..NumJoints :
        (/\ tick.outcome = "applied"
         /\ IsFirstGripperDof(i)
         /\ tick.patch_raised # "names"
         /\ tick.has_positions
         /\ i <= Len(tick.raw))
            => GripperSlotOverridden(i)

\* A step on the Z1 that overrode the gripper slot with the open angle,
\* -90 degrees, where the policy had commanded something else.
C2_Witness ==
    /\ tick.outcome = "applied"
    /\ stage.dof_layout = "z1"
    /\ self.gripper_target_position = Int2Num(-90)
    /\ tick.has_positions
    /\ Len(tick.raw) = NumJoints
    /\ IsNum(tick.raw[GripperJoint])
    /\ tick.applied[GripperJoint] # tick.raw[GripperJoint]
    /\ tick.applied[GripperJoint] = math_radians(Int2Num(-90))

\* C2 (as claimed): on every physics step that applies an action, where
\* the articulation has a DOF whose name contains "gripper", the applied
\* action's slot at the first such DOF index is the gripper target in
\* radians and every other slot is the policy's output.
C2_GripperSlotAlwaysOverridden ==
    \A i \in 1..NumJoints :
        (tick.outcome = "applied" /\ IsFirstGripperDof(i))
            => GripperSlotOverridden(i)

\* C3 (as claimed): when the gripper patch of a physics step raises, the
\* exception does not leave the callback, the action applied is the
\* policy's output unmodified, and apply_action is called once.
C3_PatchFailureAppliesUnmodified ==
    (TickPastReady /\ tick.patch_raised # "no")
        => (/\ ~tick.raised
            /\ tick.apply_calls = 1
            /\ tick.applied = tick.raw)

\* The drives are configured: the seven cached handles are drives of the
\* current stage and the gripper flag exists.
Configured(s, st) ==
    /\ \A j \in Joints : HandleLive(st, s.joints[j])
    /\ s.has_gripper_open

\* The gripper toggle twice in succession, with nothing in between.
ToggleTwice(get_raises) ==
    LET once == _on_control_gripper(self, stage, get_raises)
    IN  _on_control_gripper(once.self, once.stage, get_raises)

\* C4: once the drives are configured, two successive gripper toggles, from
\* the open or from the closed state, bring _gripper_target_position, the
\* gripper drive's target and the open/closed flag back to what they were
\* before the first toggle.
C4_ToggleTwiceRoundTrip ==
    Configured(self, stage) =>
        \A get_raises \in BOOLEAN :
            LET twice == ToggleTwice(get_raises)
            IN  /\ ~twice.raised /\ ~twice.aborted
                /\ twice.self.gripper_target_position
                        = self.gripper_target_position
                /\ twice.stage.drives[GripperJoint].target
                        = stage.drives[GripperJoint].target
                /\ twice.self.gripper_open = self.gripper_open

\* The second of two successive toggles has just completed and has brought
\* the gripper back to the open state, on configured drives.
C4_Witness ==
    /\ ui.op = "gripper" /\ ui.streak = 2
    /\ Configured(self, stage)
    /\ self.gripper_open
    /\ self.gripper_target_position = GripperOpenAngle
    /\ stage.drives[GripperJoint].target = GripperOpenAngle

\* The angle a toggle commands from the state s.
ToggledAngle(s) ==
    IF s.gripper_open THEN Int2Num(0) ELSE Int2Num(-90)

C7_AbortLeavesStateUntouched ==
    [][(ui'.op = "config" /\ ui'.aborted)
        => (/\ self'.joints = self.joints
            /\ self'.has_gripper_open = self.has_gripper_open
            /\ self'.gripper_open = self.gripper_open
            /\ self'.gripper_target_position = self.gripper_target_position
            /\ stage'.drives = stage.drives
            /\ stage'.solver_pos = stage.solver_pos
            /\ stage'.solver_vel = stage.solver_vel)]_vars

\* The handler completed: it neither raised nor reported an error.
Completed(r) == ~r.raised /\ ~r.aborted

\* The gains and target that drive j carries on stage st.
Gains(st, j) == <<st.drives[j].stiffness, st.drives[j].damping>>

ArmJoints == Joints \ {GripperJoint}

\* C8: two successive successful calls of _on_config_robot leave every
\* joint's target, stiffness and damping, the gripper flag (closed) and the
\* gripper target (0) as the first call left them; the six arm joints
\* carry one gain pair and the gripper joint a lower one.
C8_ConfigIdempotent ==
    \A g1 \in BOOLEAN, g2 \in BOOLEAN :
        LET first == _on_config_robot(self, stage, g1)
            second == _on_config_robot(first.self, first.stage, g2)
        IN  (Completed(first) /\ Completed(second))
                => (/\ second.stage.drives = first.stage.drives
                    /\ ~second.self.gripper_open /\ ~first.self.gripper_open
                    /\ second.self.gripper_target_position = Int2Num(0)
                    /\ first.self.gripper_target_position = Int2Num(0)
                    /\ \A j \in Joints :
                          second.stage.drives[j].target = Int2Num(0)
                    /\ \A j \in ArmJoints, k \in ArmJoints :
                          Gains(second.stage, j) = Gains(second.stage, k)
                    /\ RatLess(Gains(second.stage, GripperJoint)[1],
                               Gains(second.stage, 1)[1])
                    /\ RatLess(Gains(second.stage, GripperJoint)[2],
                               Gains(second.stage, 1)[2]))

\* The second of two successive Configure clicks has just completed, after
\* the first had replaced the gains the import gave the drives.
C8_Witness ==
    /\ ui.op = "config" /\ ui.streak = 2
    /\ Configured(self, stage)
    /\ \A j \in Joints :
          /\ stage.drives[j].stiffness # ImportedDrive.stiffness
          /\ stage.drives[j].stiffness = DriveStiffness(j)
          /\ stage.drives[j].damping = DriveDamping(j)

\* C6: once a Follow click has completed the construction of the bridge
\* (controller and articulation wrapper both present), no later step
\* before shutdown - a Follow click, any other click, a physics step -
\* replaces the articulation wrapper, the RmpFlow object or the controller,
\* and no later Follow click constructs anything.
C6_BridgeConstructedAtMostOnce ==
    [][(/\ self.rmp_controller # 0
        /\ self.z1_articulation.id # 0
        /\ sim'.phase = "running")
        => (/\ self'.rmp_controller = self.rmp_controller
            /\ self'.z1_articulation.id = self.z1_articulation.id
            /\ self'.rmp_flow = self.rmp_flow
            /\ ~ui'.constructed)]_vars

\* A second Follow click in a row has completed on the bridge the first
\* one constructed.
C6_Witness ==
    /\ ui.op = "follow" /\ ui.streak = 2
    /\ ~ui.constructed
    /\ self.rmp_controller # 0
    /\ self.z1_articulation.id # 0
    /\ self.rmp_flow.id # 0

\* The kinds of xform op the target prim carries.
TargetOpTypes == {stage.target.ops[i].type : i \in DOMAIN stage.target.ops}

\* The value of the only op of this type on the target prim.
TargetOpValue(type) ==
    stage.target.ops[CHOOSE i \in DOMAIN stage.target.ops :
                        stage.target.ops[i].type = type].val

\* A physics step found the bridge READY and the handles initialized.
TickPastHandles ==
    tick.outcome \in {"no_target", "applied", "raised"} /\ ~tick.raised

\* C9 (as amended): on a physics step with the bridge READY and the
\* articulation initialized, a target prim that exists but carries no
\* translate op is read as the position (0.4, 0.0, 0.4), one that carries
\* no orient or rotateXYZ op as the identity quaternion (1, 0, 0, 0), and
\* forward() is called with that pose and its action applied; when there
\* is no valid prim at the target path the callback returns without
\* calling forward() and without applying an action.
C9_DefaultPoseWhenOpsAbsent ==
    /\ (TickPastHandles /\ ~stage.target.valid)
          => (/\ tick.outcome = "no_target"
              /\ tick.forward_calls = 0
              /\ tick.apply_calls = 0)
    /\ (TickPastHandles /\ stage.target.valid)
          => (/\ tick.forward_calls = 1
              /\ tick.apply_calls = 1
              /\ ("translate" \notin TargetOpTypes
                    => tick.target_pos
                         = <<Rat(4, 10), Int2Num(0), Rat(4, 10)>>)
              /\ (TargetOpTypes \cap {"orient", "rotateXYZ"} = {}
                    => tick.target_ori
                         = <<Int2Num(1), Int2Num(0), Int2Num(0), Int2Num(0)>>))

\* A step applied the action forward() returned for the default pose, the
\* target prim carrying no translate and no rotation op.
C9_Witness ==
    /\ tick.outcome = "applied"
    /\ stage.target.valid
    /\ TargetOpTypes \cap {"translate", "orient", "rotateXYZ"} = {}
    /\ tick.forward_calls = 1
    /\ tick.target_pos = <<Rat(4, 10), Int2Num(0), Rat(4, 10)>>
    /\ tick.target_ori = <<Int2Num(1), Int2Num(0), Int2Num(0), Int2Num(0)>>

\* C9 (as claimed): on a physics step with the bridge READY and the
\* articulation initialized, when there is no valid prim at the target
\* path, or the prim has no translate or rotation op, forward() is still
\* called, with the default position or orientation, and its action
\* applied.
C9_DefaultPoseWhenTargetAbsent ==
    TickPastHandles
        => (/\ tick.forward_calls = 1
            /\ tick.apply_calls = 1
            /\ ((~stage.target.valid \/ "translate" \notin TargetOpTypes)
                  => tick.target_pos
                       = <<Rat(4, 10), Int2Num(0), Rat(4, 10)>>)
            /\ ((~stage.target.valid
                    \/ TargetOpTypes \cap {"orient", "rotateXYZ"} = {})
                  => tick.target_ori
                       = <<Int2Num(1), Int2Num(0), Int2Num(0), Int2Num(0)>>))

\* The target prim carries a translate op and an orient op, and no other
\* rotation.
TranslateAndOrientOnly ==
    /\ stage.target.valid
    /\ {"translate", "orient"} \subseteq TargetOpTypes
    /\ "rotateXYZ" \notin TargetOpTypes

\* 0.4 as Gf.Vec3f holds it: 13421773 / 2^25 = 0.4000000059604645.
SinglePrecision04 == [n |-> 13421773, d |-> 33554432]

\* C10 (as amended): for a target prim whose ops are a translate op with
\* value t and an orient op with quaternion q, and no rotateXYZ op, every
\* physics step that finds the bridge READY and the handles initialized
\* calls forward() once, with the position t and the orientation q as
\* (w, x, y, z); the prim as Follow creates it holds its translation in
\* single precision, so that it gives the position (0.4000000059604645,
\* 0.0, 0.4000000059604645) and the identity quaternion.
C10_ForwardGetsStoredPose ==
    /\ (TickPastHandles /\ TranslateAndOrientOnly)
          => (/\ tick.forward_calls = 1
              /\ tick.target_pos = TargetOpValue("translate")
              /\ tick.target_ori = TargetOpValue("orient"))
    /\ (TickPastHandles /\ stage.target = [valid |-> TRUE,
                                           ops |-> CreatedTargetOps])
          => (/\ tick.forward_calls = 1
              /\ tick.target_pos
                   = <<SinglePrecision04, Int2Num(0), SinglePrecision04>>
              /\ tick.target_ori
                   = <<Int2Num(1), Int2Num(0), Int2Num(0), Int2Num(0)>>)

\* A step called forward() with the half turn the user gave the target.
C10_Witness ==
    /\ tick.outcome = "applied"
    /\ TranslateAndOrientOnly
    /\ tick.forward_calls = 1
    /\ tick.target_ori = <<Int2Num(0), Int2Num(0), Int2Num(0), Int2Num(1)>>
    /\ tick.target_pos = <<Rat(4, 10), Int2Num(0), Rat(4, 10)>>

\* C10 (as claimed): for a target prim carrying a translate op with value
\* t and an orient op with quaternion q, the physics step calls forward()
\* once with exactly t and q; the prim as Follow creates it gives exactly
\* the position (0.4, 0.0, 0.4) and the identity quaternion.
C10_ForwardGetsExactPose ==
    /\ (/\ TickPastHandles /\ stage.target.valid
        /\ {"translate", "orient"} \subseteq TargetOpTypes)
          => (/\ tick.forward_calls = 1
              /\ tick.target_pos = TargetOpValue("translate")
              /\ tick.target_ori = TargetOpValue("orient"))
    /\ (TickPastHandles /\ stage.target = [valid |-> TRUE,
                                           ops |-> CreatedTargetOps])
          => (/\ tick.forward_calls = 1
              /\ tick.target_pos = <<Rat(4, 10), Int2Num(0), Rat(4, 10)>>
              /\ tick.target_ori
                   = <<Int2Num(1), Int2Num(0), Int2Num(0), Int2Num(0)>>)


---------------------------------------------------------------------------
(* C11: what mutates the gripper state *)

\* The gripper state of an instance: whether _gripper_open is an attribute,
\* its value, and _gripper_target_position.
GripperState(s) ==
    <<s.has_gripper_open, s.gripper_open, s.gripper_target_position>>

\* A step that leaves the gripper target, and the flag once it is set, as
\* they were.
KeepsGripperState ==
    /\ self'.gripper_target_position = self.gripper_target_position
    /\ self.has_gripper_open => GripperState(self') = GripperState(self)

\* C11 (amended): the gripper state is mutated only by the gripper toggle
\* and by drive configuration (Configure, and the configuration embedded in
\* Move): Load, Follow, the debug toggle, the camera reconfiguration and the
\* physics tick leave the target angle, and the flag once it is set,
\* unchanged; the tick reads the target it finds.
C11_OnlyToggleAndConfigMutate ==
    [][/\ ui'.op \notin {"gripper", "config", "move"} => KeepsGripperState
       /\ tick'.outcome \in {"applied", "raised", "uninitialized",
                              "no_target"}
            => tick'.gripper_target = self.gripper_target_position]_vars

\* The gripper was opened, and then the debug toggle, Follow and a physics
\* tick that applied an action have run with the gripper still open.
C11_Witness ==
    /\ tick.outcome = "applied"
    /\ self.debug_gripper_lock
    /\ self.has_gripper_open /\ self.gripper_open
    /\ self.gripper_target_position = GripperOpenAngle
    /\ tick.gripper_target = GripperOpenAngle
    /\ self.rgb_camera_prim_path # "None"

\* C11 as stated: every step other than the gripper toggle leaves the flag
\* and the target angle as they were once they have been set.
C11_OnlyToggleMutates ==
    [][(self.has_gripper_open /\ ui'.op # "gripper")
          => GripperState(self') = GripperState(self)]_vars

---------------------------------------------------------------------------
(* C12: shutdown releases the physics-step subscription *)

\* C12: after on_shutdown the extension holds no subscription, no
\* controller and no articulation, the host has no subscriber left, and a
\* physics-step callback delivered afterwards returns at its first check:
\* it calls neither initialize(), forward() nor apply_action.
C12_ShutdownReleasesSubscription ==
    sim.phase = "shutdown" =>
        /\ self.rmp_physx_subscription = 0
        /\ self.rmp_controller = 0
        /\ self.z1_articulation = NoArticulation
        /\ sim.subscribers = 0
        /\ tick.outcome \in {"idle", "not_ready"}
        /\ tick.initialize_calls = 0
        /\ tick.forward_calls = 0
        /\ tick.apply_calls = 0

\* The bridge had been constructed, the timeline plays, the target prim is
\* there and the articulation could be initialized; the extension was shut
\* down and a physics-step callback was delivered after that.
C12_Witness ==
    /\ sim.phase = "shutdown"
    /\ self.rmp_flow.id # 0
    /\ sim.playing /\ sim.physics_ready
    /\ stage.robot /\ stage.target.valid
    /\ tick.outcome = "not_ready"

---------------------------------------------------------------------------
(* C13: the handles dropped at shutdown *)

\* C13: after on_shutdown the instance holds no motion policy, no
\* controller, no articulation wrapper, none of the seven joint-drive
\* handles, no subscription and no printer task.
C13_ShutdownDropsAllHandles ==
    sim.phase = "shutdown" =>
        /\ self.rmp_flow = NoRmpFlow
        /\ self.rmp_controller = 0
        /\ self.z1_articulation = NoArticulation
        /\ \A j \in Joints : ~HandlePresent(self.joints[j])
        /\ self.rmp_physx_subscription = 0
        /\ ~self.camera_pose_print_task

---------------------------------------------------------------------------
(* C14: the camera-pose printer task *)

PrinterTasks == 1..Len(sim.printers)

PrinterStatusIs(i, status) ==
    i \in PrinterTasks /\ sim.printers[i].status = status

\* on_shutdown cancels every printer task that is running.
ShutdownCancelsPrinter ==
    (sim.phase = "running" /\ sim'.phase = "shutdown") =>
        /\ ~self'.camera_pose_print_task
        /\ \A i \in PrinterTasks :
              sim.printers[i].status = "running"
                  => sim'.printers[i].status = "cancelled"

\* A task that was cancelled writes no further camera-pose line and is
\* never running again.
CancelledPrinterIsSilent ==
    \A i \in PrinterTasks :
        sim.printers[i].status \in {"cancelled", "done"} =>
            /\ sim'.printers[i].lines = sim.printers[i].lines
            /\ sim'.printers[i].status \in {"cancelled", "done"}

\* A task whose last iteration raised an exception other than the
\* cancellation has not ended: it waits at the sleep that closes the
\* iteration.
PrinterSurvivesException ==
    \A i \in PrinterTasks :
        sim.printers[i].last = "warning" =>
            /\ sim.printers[i].status # "done"
            /\ sim.printers[i].at = "sleep_357"

\* C14: on_shutdown cancels the printer task when it was started; a
\* cancelled task prints no further camera-pose line and, whichever await
\* it was suspended at, terminates; an exception other than the
\* cancellation inside an iteration is caught and the loop goes on.
C14_PrinterCancelledOnShutdown ==
    /\ [][ShutdownCancelsPrinter]_vars
    /\ [][CancelledPrinterIsSilent]_vars
    /\ []PrinterSurvivesException
    /\ \A i \in 1..MaxTasks :
          PrinterStatusIs(i, "cancelled") ~> PrinterStatusIs(i, "done")

\* A task printed a line, then found the camera prims gone and slept inside
\* the try block; the extension was shut down and the task has ended
\* through the except clause of the cancellation.
C14_Witness ==
    /\ sim.phase = "shutdown"
    /\ \E i \in PrinterTasks :
          /\ sim.printers[i].status = "done"
          /\ sim.printers[i].last = "newline"
          /\ sim.printers[i].lines >= 1

---------------------------------------------------------------------------
(* C15: the failure modes of the gripper toggle *)

\* C15: a gripper toggle never raises.  When the gripper handle is not an
\* attribute the toggle calls the drive configuration; when the handle is
\* there afterwards the toggle goes on in the same click and opens the
\* gripper to -90; when it is not, the toggle reports the error and changes
\* neither the flag, the target nor any drive.
C15_ToggleFailsOnlyUnconfigured ==
    [][ui'.op = "gripper" =>
        /\ ~ui'.raised
        /\ (~HandlePresent(self.joints[GripperJoint]) /\ ~ui'.aborted) =>
              /\ self'.has_gripper_open /\ self'.gripper_open
              /\ self'.gripper_target_position = GripperOpenAngle
              /\ stage'.drives[GripperJoint].target = GripperOpenAngle
        /\ ui'.aborted =>
              /\ ~HandlePresent(self'.joints[GripperJoint])
              /\ self'.has_gripper_open = self.has_gripper_open
              /\ self'.gripper_open = self.gripper_open
              /\ self'.gripper_target_position = self.gripper_target_position
              /\ stage'.drives = stage.drives]_vars

---------------------------------------------------------------------------
(* C16: camera setup without a camera_link *)

\* The step is the camera setup that ends _load_robot (not forced).
LoadCameraStep == sim.load_pc = "camera" /\ sim'.load_pc = "idle"

\* C16: a camera setup, forced (the Reconfigure Camera button) or not (the
\* end of Load), that finds no camera_link reports the error and returns:
\* no prim is removed or defined, the stored camera prim paths are as
\* before and no printer task is started.
C16_NoCameraLinkAborts ==
    [][/\ (ui'.op = "camera" /\ ~stage.camera_link) =>
            /\ ui'.aborted
            /\ stage' = stage /\ self' = self /\ sim' = sim
       /\ (LoadCameraStep /\ ~stage.camera_link) =>
            /\ stage' = stage /\ self' = self
            /\ sim'.printers = sim.printers]_vars

\* The forced setup has just aborted on a robot without camera_link, with
\* a stray camera prim under the robot, and with camera paths stored and
\* the printer task started on an earlier stage.
C16_Witness ==
    /\ ui.op = "camera" /\ ui.aborted
    /\ ~stage.camera_link
    /\ "robot/Camera" \in stage.cameras
    /\ self.rgb_camera_prim_path # "None"
    /\ Len(sim.printers) = 1

---------------------------------------------------------------------------
(* C17: the base pose of the bridge *)

\* The base pose the bridge was given is the origin and the identity.
DefaultBasePose(s) ==
    s.rmp_flow.base_pos = Zeros3 /\ s.rmp_flow.base_quat = IdentityQuat

\* C17: a Follow click that constructs the bridge does not fail when the
\* articulation cannot be initialized: the bridge is READY with the origin
\* and the identity as base pose; with the handles initialized the base
\* pose is the articulation's world pose.
C17_UninitializedBridgeCompletes ==
    [][(ui'.op = "follow" /\ ui'.constructed) =>
        /\ ~ui'.raised
        /\ BridgeReady(self')
        /\ IF self'.z1_articulation.handles_initialized
           THEN /\ self'.rmp_flow.base_pos = stage.base_pos
                /\ self'.rmp_flow.base_quat = stage.base_quat
           ELSE DefaultBasePose(self')]_vars

---------------------------------------------------------------------------
(* C18: Move when the drive configuration fails *)

\* Neither naming scheme has all seven joint prims on the stage.
NeitherSchemeResolves(st) ==
    /\ FirstMissing(st, "joints") <= NumJoints
    /\ FirstMissing(st, "flat") <= NumJoints

\* C18: a Move click on a robot whose seven joints resolve under neither
\* naming scheme reports the error and returns: it does not raise and it
\* changes no drive's target, whatever handles the instance has cached.
C18_MoveAbortsWhenConfigFails ==
    [][(ui'.op = "move" /\ stage.robot /\ NeitherSchemeResolves(stage)) =>
        /\ ~ui'.raised
        /\ ui'.aborted
        /\ \A j \in Joints :
              stage'.drives[j].target = stage.drives[j].target]_vars

---------------------------------------------------------------------------
(* C19: the target prim is created or located *)

\* The step is a Follow click that got as far as _create_rmp_target_prim.
FollowReachedTarget == ui'.op = "follow" /\ ~ui'.raised

\* A Follow click defines the cube, with its default orientation and
\* translation, when no valid prim is at the target path, and leaves the
\* prim it finds as it is.
CreateOrLocate ==
    FollowReachedTarget =>
        IF stage.target.valid
        THEN stage'.target = stage.target
        ELSE stage'.target = [valid |-> TRUE, ops |-> CreatedTargetOps]

\* C19 (amended): target-prim creation is create-or-locate; a Follow click
\* defines a target prim on a stage that had one before only when that
\* prim is no longer valid (it was deleted).
C19_TargetCreatedOrLocated ==
    [][/\ CreateOrLocate
       /\ (FollowReachedTarget /\ stage.target_defined /\ stage.target.valid)
            => stage'.target = stage.target]_vars

\* Follow was clicked twice in a row on a target the user had moved or
\* rotated, and the target is as the user left it.
C19_Witness ==
    /\ ui.op = "follow" /\ ui.streak = 2
    /\ stage.target.valid /\ stage.target_defined
    /\ stage.target.ops # CreatedTargetOps

\* C19 as stated: create-or-locate, and at most one target prim is ever
\* created on a stage.
C19_TargetCreatedOncePerStage ==
    [][/\ CreateOrLocate
       /\ (FollowReachedTarget /\ stage.target_defined)
            => stage'.target = stage.target]_vars

---------------------------------------------------------------------------
(* C20: lazy initialization with retry *)

\* A tick calls initialize() once when it finds the handles uninitialized,
\* and not at all when it finds them initialized.
InitializeAttemptedOnce ==
    TickPastReady =>
        tick.initialize_calls = IF tick.handles_before THEN 0 ELSE 1

\* A tick that found the handles uninitialized: when its initialize() got
\* them, the same tick reads the target, calls forward() and applies the
\* action (or returns for want of a target prim); when it did not, the
\* tick is skipped.
LazyTickOutcome ==
    (TickPastReady /\ ~tick.handles_before) =>
        IF ~self.z1_articulation.handles_initialized
        THEN /\ tick.outcome = "uninitialized"
             /\ tick.forward_calls = 0 /\ tick.apply_calls = 0
        ELSE IF stage.target.valid
        THEN /\ tick.outcome = "applied"
             /\ tick.forward_calls = 1 /\ tick.apply_calls = 1
        ELSE /\ tick.outcome = "no_target"
             /\ tick.forward_calls = 0 /\ tick.apply_calls = 0

\* No tick applies an action while the handles are uninitialized.
NoApplyUninitialized ==
    tick.apply_calls > 0 => self.z1_articulation.handles_initialized

\* The callback is subscribed, the bridge is READY, the target prim is
\* valid and the host lets initialize() succeed.
TicksCanApply ==
    /\ self.rmp_physx_subscription # 0
    /\ BridgeReady(self)
    /\ stage.target.valid
    /\ CanInitialize(stage, sim)

\* C20: every tick that finds the handles uninitialized attempts
\* initialize() once and goes on in the same tick when that succeeds, else
\* is skipped; no tick applies an action with the handles uninitialized;
\* and with the ticks continuing, a valid target prim and a host that lets
\* initialize() succeed, an action is eventually applied.
C20_LazyInitRetry ==
    /\ []InitializeAttemptedOnce
    /\ []LazyTickOutcome
    /\ []NoApplyUninitialized
    /\ TicksCanApply ~> (tick.outcome = "applied" \/ ~TicksCanApply)

\* A tick found the handles uninitialized, initialized them and applied an
\* action in the same call.
C20_Witness ==
    /\ tick.outcome = "applied"
    /\ ~tick.handles_before
    /\ tick.initialize_calls = 1
    /\ tick.apply_calls = 1
    /\ self.z1_articulation.handles_initialized

---------------------------------------------------------------------------
(* C21: the physics-step callback is subscribed at most once *)

\* The step is a Follow click that called subscribe_physics_step_events.
FollowSubscribes == ui'.op = "follow" /\ sim'.subscribers > sim.subscribers

\* Only a Follow click that found no stored subscription, and whose bridge
\* setup and target creation completed, subscribes; no other step adds a
\* subscriber or stores a subscription.
SubscribedByFirstFollow ==
    /\ sim'.subscribers > sim.subscribers
          => /\ FollowSubscribes
             /\ self.rmp_physx_subscription = 0
             /\ ~ui'.raised
             /\ BridgeReady(self') /\ stage'.target.valid
             /\ sim'.subscribers = sim.subscribers + 1
    /\ (self.rmp_physx_subscription = 0 /\ self'.rmp_physx_subscription # 0)
          => FollowSubscribes
    /\ (self.rmp_physx_subscription # 0 /\ ui'.op # "shutdown")
          => self'.rmp_physx_subscription = self.rmp_physx_subscription

\* At most one subscription is live, and it is the stored one.
AtMostOneSubscription ==
    /\ sim.subscribers \in {0, 1}
    /\ sim.subscribers = 1 <=> self.rmp_physx_subscription # 0

\* A physics tick runs the callback at most once: one initialize() at
\* most, one forward() at most, one applied action at most.
TickAppliesAtMostOnce ==
    /\ tick.initialize_calls <= 1
    /\ tick.forward_calls <= 1
    /\ tick.apply_calls <= 1
    /\ (tick.outcome # "idle" /\ Running) => sim.subscribers = 1

\* Whenever a subscription is held, the controller and the articulation
\* are both set.
SubscriptionImpliesBridge ==
    self.rmp_physx_subscription # 0 => BridgeReady(self)

\* C21: between startup and shutdown, subscribe_physics_step_events is
\* called only by a Follow click that finds no stored subscription and
\* whose bridge setup and target creation completed; at most one
\* subscription is live, each physics tick applies at most one action, and
\* whenever a subscription is held the controller and the articulation are
\* both set.
C21_SubscribedAtMostOnce ==
    /\ [][SubscribedByFirstFollow]_vars
    /\ []AtMostOneSubscription
    /\ []TickAppliesAtMostOnce
    /\ []SubscriptionImpliesBridge

\* Follow has completed twice in a row: the second click found the
\* subscription of the first, and one subscription is live.
C21_Witness ==
    /\ ui.op = "follow" /\ ui.streak = 2
    /\ self.rmp_physx_subscription # 0
    /\ sim.subscribers = 1
    /\ BridgeReady(self)

---------------------------------------------------------------------------
(* C22: the gripper target and the open/closed flag *)

\* The gripper target is one of the two fixed angles.
GripperTargetFixed ==
    self.gripper_target_position \in {GripperClosedAngle, GripperOpenAngle}

\* Once _gripper_open is an attribute, it is True exactly when the target
\* is the open angle.
FlagMatchesTarget ==
    self.has_gripper_open =>
        (self.gripper_open <=> self.gripper_target_position = GripperOpenAngle)

\* The last physics step wrote the gripper slot of the action it applied.
GripperValueWritten ==
    /\ tick.outcome = "applied"
    /\ tick.has_positions
    /\ tick.gripper_joint_index \in 1..Len(tick.raw)
    /\ tick.patch_raised \in {"no", "format"}

\* The value written is 0 or radians(-90).
WrittenGripperValueFixed ==
    GripperValueWritten =>
        tick.applied[tick.gripper_joint_index]
            \in {Int2Num(0), math_radians(Int2Num(-90))}

\* C22 (as claimed): in every reachable state the gripper target is 0.0 or
\* -90.0, the open/closed flag, once defined, is True exactly when the
\* target is -90.0, and the gripper value written into an applied action
\* is 0 or radians(-90).
C22_GripperTargetMatchesFlag ==
    /\ GripperTargetFixed
    /\ FlagMatchesTarget
    /\ WrittenGripperValueFixed

---------------------------------------------------------------------------
(* C23: Load leaves the cached state *)

\* What the instance caches: the joint-drive handles, the gripper flag and
\* target, the articulation wrapper, the RmpFlow object, the controller and
\* the subscription.
CachedState(s) ==
    <<s.joints, s.has_gripper_open, s.gripper_open,
      s.gripper_target_position, s.z1_articulation.id, s.rmp_flow,
      s.rmp_controller, s.rmp_physx_subscription>>

\* The step is part of a Load: the click, the new stage, the import, the
\* camera setup.
LoadStep == sim'.load_pc # sim.load_pc

\* The step is a Follow click that found a controller and an articulation
\* stored.
FollowOnStoredBridge ==
    /\ ui'.op = "follow"
    /\ self.rmp_controller # 0
    /\ self.z1_articulation.id # 0

\* C23: every step of a Load leaves the cached joint-drive handles, the
\* gripper flag and target, the articulation wrapper, the RmpFlow object,
\* the controller and the subscription as they were, and the host's
\* subscriber with them; a Follow click that finds a stored bridge, on
\* whatever stage, constructs nothing and keeps the three objects.
C23_LoadKeepsCachedState ==
    [][/\ LoadStep => /\ CachedState(self') = CachedState(self)
                      /\ sim'.subscribers = sim.subscribers
       /\ FollowOnStoredBridge
            => /\ ~ui'.constructed
               /\ ~ui'.raised
               /\ self'.z1_articulation.id = self.z1_articulation.id
               /\ self'.rmp_flow = self.rmp_flow
               /\ self'.rmp_controller = self.rmp_controller
               /\ sim'.next_id = sim.next_id
                    + (IF self.rmp_physx_subscription = 0 THEN 1 ELSE 0)]_vars

\* After a second Load, Follow has completed on a bridge that was
\* constructed for the robot of the stage before (the policy has that
\* robot's base position, the robot now on the stage stands elsewhere),
\* with drive handles of the stage before still cached and the gripper
\* left open: the bridge counted as READY and nothing was constructed.
C23_Witness ==
    /\ stage.gen = 2 /\ stage.robot
    /\ ui.op = "follow" /\ ~ui.raised /\ ~ui.constructed
    /\ BridgeReady(self)
    /\ self.rmp_flow.base_pos # Zeros3
    /\ stage.base_pos = Zeros3
    /\ self.joints[GripperJoint].kind = "drive"
    /\ self.joints[GripperJoint].gen = 1
    /\ self.has_gripper_open /\ self.gripper_open
    /\ self.gripper_target_position = GripperOpenAngle
    /\ self.rmp_physx_subscription # 0

---------------------------------------------------------------------------
(* C24: the flag the gripper toggle reads *)

\* C24 (as claimed): in every reachable state, joint_gripper set (the
\* attribute is present and not None) implies _gripper_open set, so a
\* gripper toggle that reaches its flip step does not fail on a missing
\* flag.
C24_GripperHandleImpliesFlag ==
    /\ HandlePresent(self.joints[GripperJoint]) => self.has_gripper_open
    /\ (ui.op = "gripper" /\ ui.raised
          /\ HandlePresent(self.joints[GripperJoint]))
            => self.has_gripper_open

---------------------------------------------------------------------------
(* C25: the debug flag affects console output only *)

\* Two instances are the same but for _debug_gripper_lock.
SameButDebug(a, b) ==
    [a EXCEPT !.debug_gripper_lock = FALSE]
        = [b EXCEPT !.debug_gripper_lock = FALSE]

\* The instance of the other run: the same but with the debug flag the
\* other way.
OtherRun == [self EXCEPT !.debug_gripper_lock = ~@]

\* The debug toggle changes nothing but the flag, and two toggles restore
\* it.
DebugToggleFrame ==
    ui'.op = "debug" =>
        /\ self' = [self EXCEPT !.debug_gripper_lock = ~@]
        /\ _on_toggle_debug(self') = self
        /\ stage' = stage /\ sim' = sim

\* A physics tick with the same inputs does the same in both runs: the
\* same calls, the same action applied, the same instance but for the flag.
DebugBlindTick ==
    \A init_raises \in StepInitInputs, names_raise \in StepNamesInputs :
      \A out \in StepOutputs :
        \A a \in {_on_rmpflow_physics_step(self, stage, sim, init_raises,
                                            out, names_raise)},
           b \in {_on_rmpflow_physics_step(OtherRun, stage, sim, init_raises,
                                            out, names_raise)} :
            /\ SameButDebug(a.self, b.self)
            /\ a.tick.outcome = b.tick.outcome
            /\ a.tick.raised = b.tick.raised
            /\ a.tick.initialize_calls = b.tick.initialize_calls
            /\ a.tick.forward_calls = b.tick.forward_calls
            /\ a.tick.apply_calls = b.tick.apply_calls
            /\ a.tick.applied = b.tick.applied

\* A click with the same inputs does the same in both runs: the same
\* stage, the same host state, the same instance but for the flag.
DebugBlindClicks ==
    /\ \A get_raises \in BOOLEAN :
         /\ \A a \in {_on_config_robot(self, stage, get_raises)},
               b \in {_on_config_robot(OtherRun, stage, get_raises)} :
                /\ SameButDebug(a.self, b.self)
                /\ a.stage = b.stage
                /\ a.raised = b.raised /\ a.aborted = b.aborted
         /\ \A a \in {_on_config_drives(self, stage, get_raises)},
               b \in {_on_config_drives(OtherRun, stage, get_raises)} :
                /\ SameButDebug(a.self, b.self)
                /\ a.stage = b.stage
                /\ a.raised = b.raised /\ a.aborted = b.aborted
         /\ \A a \in {_on_control_gripper(self, stage, get_raises)},
               b \in {_on_control_gripper(OtherRun, stage, get_raises)} :
                /\ SameButDebug(a.self, b.self)
                /\ a.stage = b.stage
                /\ a.raised = b.raised /\ a.aborted = b.aborted
    /\ \A f \in FailPoints :
         \A a \in {_on_rmpflow_follow_button(self, stage, sim, f)},
            b \in {_on_rmpflow_follow_button(OtherRun, stage, sim, f)} :
             /\ SameButDebug(a.self, b.self)
             /\ a.stage = b.stage /\ a.sim = b.sim
             /\ a.raised = b.raised
    /\ \A f \in {"no", "rgb", "depth"}, force_create \in BOOLEAN :
         \A a \in {_setup_d435i_camera(self, stage, sim, force_create, f)},
            b \in {_setup_d435i_camera(OtherRun, stage, sim,
                                        force_create, f)} :
             /\ SameButDebug(a.self, b.self)
             /\ a.stage = b.stage /\ a.sim = b.sim
             /\ a.aborted = b.aborted
    /\ SameButDebug(_on_toggle_debug(self), _on_toggle_debug(OtherRun))

\* C25: the debug toggle changes nothing but _debug_gripper_lock and two
\* toggles restore it; and from two states that differ only in the debug
\* flag, every click and every physics tick given the same inputs leads to
\* states that again differ only in the flag, the tick applying the same
\* action in both: so two runs with the same clicks, ticks, target poses
\* and policy outputs apply the same action at every tick.
C25_DebugAffectsOutputOnly ==
    /\ [][DebugToggleFrame]_vars
    /\ [](DebugBlindTick /\ DebugBlindClicks)

\* With the debug flag on, a tick applied an action whose gripper slot the
\* policy had left None: the debug line could not be formatted, after the
\* slot had been overwritten with the gripper target.
C25_Witness ==
    /\ tick.outcome = "applied"
    /\ self.debug_gripper_lock
    /\ tick.patch_raised = "format"
    /\ tick.applied[tick.gripper_joint_index]
         = math_radians(self.gripper_target_position)
=============================================================================
